---- MODULE Spec2Model ----
(***************************************************************************)
(* A model of plink_tensorflow: the PLINK data feed (plink_feed.py) and    *)
(* the training loop of the variational autoencoder                        *)
(* (variational_autoencoder.py).                                           *)
(*                                                                         *)
(* Three specifications share the module:                                  *)
(*   Spec       a MetaAnalysisDataset after construction, its              *)
(*              test_train_split / test_set / train_set_minibatches        *)
(*              methods, and BasicVariationalAutoencoder.infer_parameters  *)
(*   SpecCache  MetaAnalysisDataset.make_tf_records over a file system     *)
(*   SpecBatch  the minibatch generator and the per-batch mean fill        *)
(*                                                                         *)
(* Numbers: a proportion is a pair <<num, den>> (0.5 is <<1, 2>>), and a   *)
(* matrix entry is a pair <<num, den>> too, <<c, 1>> for the call c and    *)
(* <<0, 0>> for NaN, so that a mean sum/count of no values is NaN as it is *)
(* in the code.  Comparisons of floats are modelled exactly; the sample    *)
(* counts of the model are small integers, which floats hold exactly.      *)
(***************************************************************************)
EXTENDS Integers, Sequences, FiniteSets, TLC

VARIABLES
    \* MetaAnalysisDataset fields
    study_arrays,     \* study -> [bim: variant count, fam: sample count, G: matrix]
    study_records,    \* study -> record file name
    m_variants,
    test_prop,
    train_studies,
    test_studies,
    has_split,        \* the train_studies / test_studies attributes exist
    \* the last method call on the dataset
    studies,          \* test_train_split's local: the shuffled study order
    last_op,
    raised,           \* the exception the last call raised, or "none"
    \* BasicVariationalAutoencoder and infer_parameters
    has_vae,
    epochs,           \* the epochs option passed to __init__
    pc,
    epoch,
    n_splits,
    n_evals,
    \* make_tf_records
    fs,               \* file name -> <<>> (no file) or <<file>>
    options,
    call,             \* the last make_tf_records call and what it returned
    \* minibatch and train_set_minibatches' loop body
    X,
    batch_size,
    shuffle,
    idxs,
    i,
    gen,              \* the generator: "created", "running" or "exhausted"
    yielded           \* the batches yielded so far, with the rows they hold

datasetVars == <<study_arrays, study_records, m_variants, test_prop,
                 train_studies, test_studies, has_split, studies,
                 last_op, raised>>
loopVars == <<has_vae, epochs, pc, epoch, n_splits, n_evals>>
cacheVars == <<fs, options, call>>
batchVars == <<X, batch_size, shuffle, idxs, i, gen, yielded>>
vars == <<datasetVars, loopVars, cacheVars, batchVars>>

-----------------------------------------------------------------------------
(* Bounds of the model *)

MaxStudies == 3
MaxSamples == 2
MaxVariants == 2
PropDen == 4
MaxEpochs == 2
MaxCacheStudies == 1
MaxCacheVariants == 2
MaxCacheSamples == 1
MaxBatchSamples == 3
MaxBatchVariants == 2
MaxBatchSize == 3

(* Program constants *)

DefaultEpochs == 50
LoopEpochs == 50

-----------------------------------------------------------------------------
(* Values *)

NaN == <<0, 0>>
Call(c) == <<c, 1>>
IsNaN(v) == v[2] = 0

EmptyDict == [s \in {} |-> <<>>]

\* os.path.join(tf_records_dir, study + '.tfrecords')
Filename(tf_records_dir, study) == <<tf_records_dir, study, ".tfrecords">>

DefaultDir == "/plink_tensorflow/data/"
\* The destinations of the model: the default directory.
Dirs == {DefaultDir}

\* No make_tf_records call has been made yet.
NoCall == [made |-> FALSE, tf_records_dir |-> DefaultDir, compress |-> FALSE,
           overwrite |-> FALSE, before |-> EmptyDict, records |-> EmptyDict]

Perms(S) == {f \in [1..Cardinality(S) -> S] :
                \A a, b \in 1..Cardinality(S) : f[a] = f[b] => a = b}

Range(f) == {f[x] : x \in DOMAIN f}

RECURSIVE SumFam(_, _)
SumFam(arrs, S) ==
    IF S = {} THEN 0
    ELSE LET s == CHOOSE x \in S : TRUE
         IN arrs[s].fam + SumFam(arrs, S \ {s})

RECURSIVE SumBim(_, _)
SumBim(arrs, S) ==
    IF S = {} THEN 0
    ELSE LET s == CHOOSE x \in S : TRUE
         IN arrs[s].bim + SumBim(arrs, S \ {s})

\* __init__: self.m_variants = sum([bim.shape[0] for ...])
TotalVariants(arrs) == SumBim(arrs, DOMAIN arrs)

\* total_sample_size = float(sum([x[1].shape[0] for x in ...values()]))
TotalSampleSize(arrs) == SumFam(arrs, DOMAIN arrs)

-----------------------------------------------------------------------------
(* MetaAnalysisDataset.test_train_split *)

\* studies = self.study_arrays.keys(): the study names in the dict's order.
Keys(arrs) == [k \in 1..Cardinality(DOMAIN arrs) |-> k]

\* shuffle(studies).  Both files are python3 scripts, where keys() is a
\* view of the dict, not a list.  random.shuffle swaps x[i] and x[j] for i
\* from len(x) - 1 down to 1, and a view cannot be indexed: with two or more
\* studies the first swap raises TypeError; with none or one study nothing
\* is swapped and the order stays as it is.
ShuffleRaises(x) == Len(x) >= 2

\* train_set_size < (total_sample_size * self.test_prop)
TrainBelowTarget(size, total, prop) == size * prop[2] < total * prop[1]

\* one iteration of `for study in studies`
SplitStudyAdding(st, study, total) ==
    IF TrainBelowTarget(st.train_set_size, total, test_prop)
    THEN [st EXCEPT
            !.train = (study :> study_records[study]) @@ st.train,
            !.train_set_size = st.train_set_size + study_arrays[study].fam,
            !.m_variants = st.m_variants + study_arrays[study].bim]
    ELSE [st EXCEPT
            !.test = (study :> study_records[study]) @@ st.test]
SplitStudy(st, study, total) ==
    IF TrainBelowTarget(st.train_set_size, total, test_prop)
    THEN [st EXCEPT
            !.train = (study :> study_records[study]) @@ st.train,
            !.train_set_size = st.train_set_size + study_arrays[study].fam,
            !.m_variants = study_arrays[study].bim]
    ELSE [st EXCEPT
            !.test = (study :> study_records[study]) @@ st.test]

RECURSIVE SplitLoop(_, _, _, _)
SplitLoop(st, order, k, total) ==
    IF k > Len(order) THEN st
    ELSE SplitLoop(SplitStudy(st, order[k], total), order, k + 1, total)

\* The fields when the call ends: the two dicts are emptied first; the loop
\* runs only when shuffle returned.
SplitResult ==
    LET start == [train |-> EmptyDict,
                  test |-> EmptyDict,
                  train_set_size |-> 0,
                  m_variants |-> m_variants]
    IN IF ShuffleRaises(Keys(study_arrays)) THEN start
       ELSE SplitLoop(start, Keys(study_arrays), 1,
                      TotalSampleSize(study_arrays))

\* What the call raises: TypeError in shuffle, or ZeroDivisionError in the
\* two print calls, which divide by total_sample_size.
SplitRaises ==
    IF ShuffleRaises(Keys(study_arrays)) THEN "TypeError"
    ELSE IF TotalSampleSize(study_arrays) = 0 THEN "ZeroDivisionError"
    ELSE "none"

\* The assignments of one call, whoever calls it.
DoSplit ==
    /\ studies' = Keys(study_arrays)
    /\ train_studies' = SplitResult.train
    /\ test_studies' = SplitResult.test
    /\ m_variants' = SplitResult.m_variants
    /\ has_split' = TRUE
    /\ last_op' = "test_train_split"
    /\ raised' = SplitRaises
    /\ UNCHANGED <<study_arrays, study_records, test_prop>>

test_train_split ==
    /\ pc = "idle"
    /\ ~has_vae
    /\ DoSplit
    /\ UNCHANGED <<loopVars, cacheVars, batchVars>>

-----------------------------------------------------------------------------
(* MetaAnalysisDataset.test_set and train_set_minibatches                  *)
(*                                                                         *)
(* Both iterate over the values of the split assignment and unpack each as *)
(* (bim, fam, G).  The values are record file names (strings longer than   *)
(* three characters), so the unpacking raises ValueError; over an empty    *)
(* test group da.concatenate([]) raises ValueError as well.  Before the    *)
(* first split the attributes do not exist.                                *)

TestSetRaises == IF has_split THEN "ValueError" ELSE "AttributeError"

TrainSetMinibatchesRaises ==
    IF ~has_split THEN "AttributeError"
    ELSE IF DOMAIN train_studies = {} THEN "none"
    ELSE "ValueError"

test_set ==
    /\ pc = "idle"
    /\ ~has_vae
    /\ last_op' = "test_set"
    /\ raised' = TestSetRaises
    /\ UNCHANGED <<study_arrays, study_records, m_variants, test_prop,
                   train_studies, test_studies, has_split, studies>>
    /\ UNCHANGED <<loopVars, cacheVars, batchVars>>

train_set_minibatches ==
    /\ pc = "idle"
    /\ ~has_vae
    /\ last_op' = "train_set_minibatches"
    /\ raised' = TrainSetMinibatchesRaises
    /\ UNCHANGED <<study_arrays, study_records, m_variants, test_prop,
                   train_studies, test_studies, has_split, studies>>
    /\ UNCHANGED <<loopVars, cacheVars, batchVars>>

-----------------------------------------------------------------------------
(* BasicVariationalAutoencoder.infer_parameters                            *)
(*                                                                         *)
(* pc: "idle" (not running), "epoch" (at the head of the for loop),        *)
(* "test_set" (the split of this epoch returned), "raised" (an exception   *)
(* left infer_parameters).  The first test_set() of the loop raises, so    *)
(* the statements after it (sess.run of the ELBO, the training batches,    *)
(* the next epoch, the end of the loop) are never reached and have no      *)
(* action.                                                                 *)

infer_parameters ==
    /\ pc = "idle"
    /\ has_vae
    /\ pc' = "epoch"
    /\ epoch' = 0
    /\ n_splits' = 0
    /\ n_evals' = 0
    /\ UNCHANGED <<has_vae, epochs>>
    /\ UNCHANGED <<datasetVars, cacheVars, batchVars>>

\* for epoch in tqdm(range(50)): self.input_dataset.test_train_split()
EpochSplit ==
    /\ pc = "epoch"
    /\ epoch < LoopEpochs
    /\ DoSplit
    /\ n_splits' = n_splits + 1
    /\ pc' = IF SplitRaises = "none" THEN "test_set" ELSE "raised"
    /\ UNCHANGED <<has_vae, epochs, epoch, n_evals>>
    /\ UNCHANGED <<cacheVars, batchVars>>

\* test_feed = {self.data: self.input_dataset.test_set()}
EpochTestSet ==
    /\ pc = "test_set"
    /\ last_op' = "test_set"
    /\ raised' = TestSetRaises
    /\ pc' = "raised"
    /\ UNCHANGED <<study_arrays, study_records, m_variants, test_prop,
                   train_studies, test_studies, has_split, studies>>
    /\ UNCHANGED <<has_vae, epochs, epoch, n_splits, n_evals>>
    /\ UNCHANGED <<cacheVars, batchVars>>

-----------------------------------------------------------------------------
(* The dataset after construction *)

Props == {<<k, PropDen>> : k \in 0..PropDen}
VaeTestProp == <<1, 2>>
EpochOptions == (1..MaxEpochs) \cup {DefaultEpochs}

\* A study as the split reads it: G itself is read only by make_tf_records
\* and the batch stream.
StudyShapes == [bim : 1..MaxVariants, fam : 0..MaxSamples, G : {<<>>}]

\* make_tf_records' return value: records[study] = filename
RecordsOf(arrs, tf_records_dir) ==
    [s \in DOMAIN arrs |-> Filename(tf_records_dir, s)]

IdleCache ==
    /\ fs = EmptyDict
    /\ options = "NONE"
    /\ call = NoCall

IdleBatch ==
    /\ X = <<>>
    /\ batch_size = 1
    /\ shuffle = FALSE
    /\ idxs = <<>>
    /\ i = 0
    /\ gen = "created"
    /\ yielded = <<>>

Init ==
    /\ \E k \in 0..MaxStudies : study_arrays \in [1..k -> StudyShapes]
    /\ study_records = RecordsOf(study_arrays, DefaultDir)
    /\ m_variants = TotalVariants(study_arrays)
    /\ has_vae \in BOOLEAN
    /\ IF has_vae
       THEN test_prop = VaeTestProp /\ epochs \in EpochOptions
       ELSE test_prop \in Props /\ epochs = DefaultEpochs
    /\ train_studies = EmptyDict
    /\ test_studies = EmptyDict
    /\ has_split = FALSE
    /\ studies = <<>>
    /\ last_op = "none"
    /\ raised = "none"
    /\ pc = "idle"
    /\ epoch = 0
    /\ n_splits = 0
    /\ n_evals = 0
    /\ IdleCache
    /\ IdleBatch

Next ==
    \/ test_train_split
    \/ test_set
    \/ train_set_minibatches
    \/ infer_parameters
    \/ EpochSplit
    \/ EpochTestSet

Spec == Init /\ [][Next]_vars

-----------------------------------------------------------------------------
(* MetaAnalysisDataset.make_tf_records                                     *)
(*                                                                         *)
(* G is variants x samples: G[v][j] is the call of sample j at variant v.  *)
(* A file is a record [options, records], records holding one vector per  *)
(* written sample.                                                         *)

\* G_df.fillna(axis=0, method='backfill'): along each column (sample), a
\* missing value takes the next valid value below it; none below, it stays.
RECURSIVE BackfillAt(_, _, _)
BackfillAt(G, v, j) ==
    IF ~IsNaN(G[v][j]) THEN G[v][j]
    ELSE IF v = Len(G) THEN NaN
    ELSE BackfillAt(G, v + 1, j)

\* .astype(np.int8): the cast of NaN is not defined by numpy; the value is
\* one the platform's conversion gives.
NaNAsInt8 == {0, -128}
ToInt8(x, nanval) == IF IsNaN(x) THEN nanval ELSE x[1]

\* G.shape[1]
NumSamples(G) == Len(G[1])

\* G after fillna(...).values.compute().astype(np.int8)
Preprocess(G, nanval) ==
    [v \in 1..Len(G) |->
        [j \in 1..NumSamples(G) |-> ToInt8(BackfillAt(G, v, j), nanval)]]

\* for sample_j in range(G.shape[1]): tfwriter.write(G[:, sample_j])
TFRecordFile(opts, G, nanval) ==
    LET P == Preprocess(G, nanval) IN
    [options |-> opts,
     records |-> [j \in 1..NumSamples(G) |-> [v \in 1..Len(G) |-> P[v][j]]]]

FileExists(f) == fs[f] # <<>>

\* if os.path.exists(filename) or overwrite: print('Skipping conversion ...')
SkipConversionIgnoringFile(exists, overwrite) == overwrite
SkipConversion(exists, overwrite) == exists \/ overwrite

\* The first call is the one of __init__: make_tf_records(tf_records_dir),
\* with compress=True and overwrite=False, whose result becomes
\* self.study_records.
make_tf_records ==
    \E tf_records_dir \in Dirs, compress \in BOOLEAN, overwrite \in BOOLEAN,
       nanval \in NaNAsInt8 :
        /\ ~call.made => (tf_records_dir = DefaultDir /\ compress /\ ~overwrite)
        /\ LET opts == IF compress THEN "GZIP" ELSE options
               written == {s \in DOMAIN study_arrays :
                             ~SkipConversion(FileExists(Filename(tf_records_dir, s)),
                                             overwrite)}
               records == RecordsOf(study_arrays, tf_records_dir)
           IN /\ options' = opts
              /\ fs' = [f \in DOMAIN fs |->
                          IF \E s \in written : f = Filename(tf_records_dir, s)
                          THEN LET s == CHOOSE s \in written :
                                            f = Filename(tf_records_dir, s)
                               IN <<TFRecordFile(opts, study_arrays[s].G, nanval)>>
                          ELSE fs[f]]
              /\ call' = [made |-> TRUE, tf_records_dir |-> tf_records_dir,
                          compress |-> compress, overwrite |-> overwrite,
                          before |-> fs, records |-> records]
              /\ study_records' = IF call.made THEN study_records ELSE records
        /\ UNCHANGED <<study_arrays, m_variants, test_prop, train_studies,
                       test_studies, has_split, studies, last_op,
                       raised>>
        /\ UNCHANGED <<loopVars, batchVars>>

\* The calls of the genotype matrices of the model, where they are not
\* missing.
Genotype(v, j) == Call((v + j) % 3)

\* The matrices of a shape: every pattern of missing calls.
Matrices(bim, fam) ==
    {[v \in 1..bim |-> [j \in 1..fam |->
            IF <<v, j>> \in M THEN NaN ELSE Genotype(v, j)]] :
        M \in SUBSET ((1..bim) \X (1..fam))}

CacheStudies ==
    UNION {[bim : {b}, fam : {f}, G : Matrices(b, f)] :
            b \in 1..MaxCacheVariants, f \in 0..MaxCacheSamples}

\* A file left at the destination by something else: it holds no record.
StaleFile == [options |-> "NONE", records |-> <<>>]

\* The dataset inside __init__, the studies read, before make_tf_records.
InitCache ==
    /\ \E k \in 1..MaxCacheStudies : study_arrays \in [1..k -> CacheStudies]
    /\ fs \in [{Filename(d, s) : d \in Dirs, s \in DOMAIN study_arrays}
                -> {<<>>, <<StaleFile>>}]
    /\ options = "NONE"
    /\ call = NoCall
    /\ study_records = EmptyDict
    /\ m_variants = TotalVariants(study_arrays)
    /\ test_prop = VaeTestProp
    /\ train_studies = EmptyDict
    /\ test_studies = EmptyDict
    /\ has_split = FALSE
    /\ studies = <<>>
    /\ last_op = "none"
    /\ raised = "none"
    /\ has_vae = FALSE
    /\ epochs = DefaultEpochs
    /\ pc = "idle"
    /\ epoch = 0
    /\ n_splits = 0
    /\ n_evals = 0
    /\ IdleBatch

NextCache == make_tf_records

SpecCache == InitCache /\ [][NextCache]_vars

-----------------------------------------------------------------------------
(* minibatch, and the body of train_set_minibatches' loop over one study   *)
(*                                                                         *)
(* The generator minibatch(da.transpose(G), batch_size) and the fill of    *)
(* lines 171-172, as functions of a study's matrix G.  (In the dataset as  *)
(* written the loop header of train_set_minibatches raises before the body *)
(* runs: see train_set_minibatches above.)                                 *)
(*                                                                         *)
(* X is samples x variants.  idxs holds the 0-based sample indices, as     *)
(* np.arange gives them; rows of X are numbered from 1.                    *)

\* da.transpose(G)
Transpose(G) ==
    [j \in 1..NumSamples(G) |-> [v \in 1..Len(G) |-> G[v][j]]]

\* np.arange(n)
Arange(n) == [k \in 1..n |-> k - 1]

\* np.random.shuffle(idxs): some permutation of idxs
Shuffles(n) == {[k \in 1..n |-> f[k] - 1] : f \in Perms(1..n)}

Min(a, b) == IF a < b THEN a ELSE b

\* The rows of X[start:(start + size), :], start 0-based: the slice stops at
\* the end of X.
SliceRows(n, start, size) ==
    [k \in 1..(Min(start + size, n) - start) |-> start + k]

RECURSIVE SumColumn(_, _, _)
SumColumn(batch, c, R) ==
    IF R = {} THEN 0
    ELSE LET r == CHOOSE x \in R : TRUE
         IN batch[r][c][1] + SumColumn(batch, c, R \ {r})

\* gene_matrix.mean(axis=0): per column, the mean of the values that are
\* not missing, sum / count; NaN (0 / 0) for a column with none.
ColumnMean(batch, c) ==
    LET valid == {r \in 1..Len(batch) : ~IsNaN(batch[r][c])}
    IN <<SumColumn(batch, c, valid), Cardinality(valid)>>

\* gene_matrix.fillna(gene_matrix.mean(axis=0), axis=0)
FillNa(batch) ==
    [r \in 1..Len(batch) |->
        [c \in 1..Len(batch[r]) |->
            IF IsNaN(batch[r][c]) THEN ColumnMean(batch, c) ELSE batch[r][c]]]

\* The first next(): n, idxs and the optional shuffle.
MinibatchStart ==
    /\ gen = "created"
    /\ idxs' \in IF shuffle THEN Shuffles(Len(X)) ELSE {Arange(Len(X))}
    /\ i' = 0
    /\ gen' = "running"
    /\ UNCHANGED <<X, batch_size, shuffle, yielded>>
    /\ UNCHANGED <<datasetVars, loopVars, cacheVars>>

\* One iteration of `for i in iter(range((n // batch_size)))`, and the fill
\* train_set_minibatches applies to the batch before yielding it.
NextBatch ==
    /\ gen = "running"
    /\ i < Len(X) \div batch_size
    /\ LET batch_start_idx == idxs[i * batch_size + 1]
           rows == SliceRows(Len(X), batch_start_idx, batch_size)
           data == [k \in 1..Len(rows) |-> X[rows[k]]]
       IN yielded' = Append(yielded, [rows |-> rows, batch |-> FillNa(data)])
    /\ i' = i + 1
    /\ UNCHANGED <<X, batch_size, shuffle, idxs, gen>>
    /\ UNCHANGED <<datasetVars, loopVars, cacheVars>>

\* The range is used up: the generator returns.
MinibatchReturn ==
    /\ gen = "running"
    /\ i >= Len(X) \div batch_size
    /\ gen' = "exhausted"
    /\ UNCHANGED <<X, batch_size, shuffle, idxs, i, yielded>>
    /\ UNCHANGED <<datasetVars, loopVars, cacheVars>>

BatchStudies ==
    UNION {[bim : {b}, fam : {f}, G : Matrices(b, f)] :
            b \in 1..MaxBatchVariants, f \in 0..MaxBatchSamples}

\* One study, and a generator over its transposed matrix, not yet started.
InitBatch ==
    /\ study_arrays \in [1..1 -> BatchStudies]
    /\ X = Transpose(study_arrays[1].G)
    /\ batch_size \in 1..MaxBatchSize
    /\ shuffle \in BOOLEAN
    /\ idxs = <<>>
    /\ i = 0
    /\ gen = "created"
    /\ yielded = <<>>
    /\ study_records = RecordsOf(study_arrays, DefaultDir)
    /\ m_variants = TotalVariants(study_arrays)
    /\ test_prop = VaeTestProp
    /\ train_studies = EmptyDict
    /\ test_studies = EmptyDict
    /\ has_split = FALSE
    /\ studies = <<>>
    /\ last_op = "none"
    /\ raised = "none"
    /\ has_vae = FALSE
    /\ epochs = DefaultEpochs
    /\ pc = "idle"
    /\ epoch = 0
    /\ n_splits = 0
    /\ n_evals = 0
    /\ IdleCache

NextBatchStream ==
    \/ MinibatchStart
    \/ NextBatch
    \/ MinibatchReturn

SpecBatch == InitBatch /\ [][NextBatchStream]_vars

-----------------------------------------------------------------------------
(* Properties of the batch stream, under SpecBatch *)

\* The batches that hold row r of X.
BatchesHolding(r) ==
    {k \in 1..Len(yielded) : r \in Range(yielded[k].rows)}

\* C5: one pass yields floor(n / b) batches of exactly b rows each, drops
\* exactly n mod b samples, and every other sample is in exactly one batch.
C5_FullBatches ==
    gen = "exhausted" =>
        LET n == Len(X)
            b == batch_size
        IN /\ Len(yielded) = n \div b
           /\ \A k \in 1..Len(yielded) : Len(yielded[k].rows) = b
           /\ Cardinality({r \in 1..n : BatchesHolding(r) = {}}) = n % b
           /\ \A r \in 1..n : Cardinality(BatchesHolding(r)) <= 1

-----------------------------------------------------------------------------
(* Properties of make_tf_records, under SpecCache *)

\* C3: record cache skip.  A call with overwrite=False leaves every file
\* that existed at its destination as it was, writes the files that did
\* not exist, and returns the destination path of every study.
C3_CacheSkip ==
    (call.made /\ ~call.overwrite) =>
        \A s \in DOMAIN study_arrays :
            LET f == Filename(call.tf_records_dir, s) IN
            /\ call.before[f] # <<>> => fs[f] = call.before[f]
            /\ call.before[f] = <<>> => fs[f] # <<>>
            /\ call.records[s] = f

\* The second of two calls with overwrite=False: the first wrote the file
\* (only make_tf_records writes a GZIP file with records in the model), the
\* second found it and left it.
C3_Witness ==
    /\ call.made
    /\ ~call.overwrite
    /\ \E s \in DOMAIN study_arrays :
          LET f == Filename(call.tf_records_dir, s) IN
          /\ call.before[f] # <<>>
          /\ call.before[f][1].options = "GZIP"
          /\ Len(call.before[f][1].records) = study_arrays[s].fam
          /\ study_arrays[s].fam > 0
          /\ fs[f] = call.before[f]

\* C4: record cache overwrite.  After a call with overwrite=True every
\* study's file exists and holds one record per sample of the study.
C4_OverwriteRewrites ==
    (call.made /\ call.overwrite) =>
        \A s \in DOMAIN study_arrays :
            LET f == Filename(call.tf_records_dir, s) IN
            /\ fs[f] # <<>>
            /\ Len(fs[f][1].records) = study_arrays[s].fam

-----------------------------------------------------------------------------
(* Properties of test_train_split and infer_parameters, under Spec *)

\* The samples of the first k studies of an order.
RECURSIVE PrefixSamples(_, _)
PrefixSamples(order, k) ==
    IF k = 0 THEN 0
    ELSE study_arrays[order[k]].fam + PrefixSamples(order, k - 1)

\* T >= p * N and T < p * N, for p = prop[1] / prop[2]
ReachesTarget(T, N, prop) == prop[1] * N <= T * prop[2]
UnderTarget(T, N, prop) == T * prop[2] < prop[1] * N

\* C1: greedy threshold property.  After a split of a registry with N > 0
\* samples, the train group is a prefix of the study order with sample
\* total T, p * N <= T, and T minus the samples of the last study added is
\* < p * N when the train group is not empty; the studies after the prefix
\* are the test group.
C1_GreedyThreshold ==
    (has_split /\ TotalSampleSize(study_arrays) > 0) =>
        \E k \in 0..Len(studies) :
            LET N == TotalSampleSize(study_arrays)
                T == PrefixSamples(studies, k)
            IN /\ DOMAIN train_studies = {studies[j] : j \in 1..k}
               /\ DOMAIN test_studies = {studies[j] : j \in (k + 1)..Len(studies)}
               /\ ReachesTarget(T, N, test_prop)
               /\ k > 0 => UnderTarget(T - study_arrays[studies[k]].fam, N, test_prop)

\* C2: after every split the train and test mappings are disjoint, cover
\* exactly the studies of the registry, and map each study to its record
\* file.
C2_SplitAssignment ==
    has_split =>
        /\ DOMAIN train_studies \cap DOMAIN test_studies = {}
        /\ DOMAIN train_studies \cup DOMAIN test_studies = DOMAIN study_arrays
        /\ \A s \in DOMAIN train_studies :
                train_studies[s] = Filename(DefaultDir, s)
        /\ \A s \in DOMAIN test_studies :
                test_studies[s] = Filename(DefaultDir, s)

\* C7: a split of a registry with zero samples in total signals
\* EmptySplitError (and so never divides by the zero total).
C7_ZeroTotalSignalsEmptySplitError ==
    (last_op = "test_train_split" /\ TotalSampleSize(study_arrays) = 0)
        => raised = "EmptySplitError"

\* A registry of one study that has samples: the split of an epoch returns.
OneStudyWithSamples ==
    /\ Cardinality(DOMAIN study_arrays) = 1
    /\ TotalSampleSize(study_arrays) > 0

\* C8: in every epoch the split is followed by exactly one held-out
\* evaluation (and then by the optimizer updates): when infer_parameters has
\* stopped, every epoch that was split has been evaluated once.  Stated for
\* the registries whose split returns.
C8_EvaluationFollowsSplit ==
    (pc = "raised" /\ OneStudyWithSamples) => n_evals = n_splits

\* C9: infer_parameters stops after exactly `epochs` epochs: `epochs`
\* splits and `epochs` held-out evaluations.  Stated for the registries
\* whose split returns.
C9_ExactlyEpochsEpochs ==
    (pc = "raised" /\ OneStudyWithSamples)
        => (n_splits = epochs /\ n_evals = epochs)

====
